---- MODULE Spec2Model ----
(***************************************************************************)
(* Model of tokenization.ipynb (eng-nor-transformer): the vocabulary       *)
(* pipeline (learn -> write_vocab_file -> CustomTokenizer.__init__) and    *)
(* the exported CustomTokenizer (tokenize, detokenize, lookup).            *)
(*                                                                         *)
(* A string is a sequence of one-character strings.  A token id is the     *)
(* 0-based index of a piece in the vocabulary, as in the notebook; TLA+    *)
(* sequences are 1-based, so piece id i is vocab[i + 1].                   *)
(***************************************************************************)
EXTENDS Integers, Sequences, FiniteSets, TLC

VARIABLES
    pc,          \* notebook position: "learn", "write", "construct", "ready"
    eng_vocab,   \* the list returned by bert_vocab_from_dataset
    vocab_file,  \* contents of eng_vocab.txt, a string
    vocab,       \* CustomTokenizer.vocab: the lines of the vocabulary file
    self_reserved_tokens,  \* CustomTokenizer._reserved_tokens
    op,          \* the last tokenizer call: "none", "tokenize", "detokenize", "roundtrip"
    strings,     \* argument of the last tokenize call: a batch of strings
    enc,         \* what self.tokenizer.tokenize returned in it: batch x word x piece ids
    tokens,      \* result of the last tokenize call: a batch of id sequences
    tokenized,   \* argument of the last detokenize or lookup call: a batch of id sequences
    words,       \* what self.tokenizer.detokenize returned in it: batch x words
    round_trip,  \* result of the last detokenize call: a batch of strings
    ret,         \* what the last lookup or get_* call returned
    raised,      \* the error the last tokenizer call raised, "none" when it returned
    vocab_sample,  \* the records of train_dataset taken for the vocabulary
    sample_eng,    \* the texts handed to bert_vocab_from_dataset
    dataset,     \* the records of df, in order
    val_saved,   \* the records val_dataset.save wrote
    train_saved  \* the records train_dataset.save wrote

\* The variables of the dataset cells, of the vocabulary cells and of the
\* tokenizer's calls.
dataVars == <<dataset, val_saved, train_saved>>
sampleVars == <<vocab_sample, sample_eng>>
callVars == <<op, strings, enc, tokens, tokenized, words, round_trip, ret,
              raised>>

vars == <<pc, eng_vocab, vocab_file, vocab, self_reserved_tokens, op, strings, enc, tokens,
          tokenized, words, round_trip, ret, raised, vocab_sample, sample_eng,
          dataset, val_saved, train_saved>>

(***************************************************************************)
(* Bounds of the model.                                                    *)
(***************************************************************************)
MaxLen == 4
MaxIds == 3

(***************************************************************************)
(* Sequence helpers.                                                       *)
(***************************************************************************)
Min(a, b) == IF a < b THEN a ELSE b

RECURSIVE Flatten(_)
Flatten(ss) == IF ss = <<>> THEN <<>> ELSE Head(ss) \o Flatten(Tail(ss))

RECURSIVE JoinWith(_, _)
JoinWith(ss, sep) ==
    IF ss = <<>> THEN <<>>
    ELSE IF Len(ss) = 1 THEN Head(ss)
    ELSE Head(ss) \o sep \o JoinWith(Tail(ss), sep)

SeqsUpTo(S, n) == UNION {[1..k -> S] : k \in 0..n}

IsPrefixAt(s, i, p) ==
    /\ i + Len(p) - 1 <= Len(s)
    /\ \A k \in 1..Len(p) : s[i + k - 1] = p[k]

Contains(s, p) == \E i \in 1..(Len(s) - Len(p) + 1) : IsPrefixAt(s, i, p)

CountOf(s, p) == Cardinality({i \in 1..(Len(s) - Len(p) + 1) : IsPrefixAt(s, i, p)})

(***************************************************************************)
(* config.RESERVED_TOKENS, and the strings the notebook names.             *)
(***************************************************************************)
TokPAD == <<"[", "P", "A", "D", "]">>
TokUNK == <<"[", "U", "N", "K", "]">>
TokSTART == <<"[", "S", "T", "A", "R", "T", "]">>
TokEND == <<"[", "E", "N", "D", "]">>

RESERVED_TOKENS == <<TokPAD, TokUNK, TokSTART, TokEND>>

\* tf.argmax(tf.constant(xs) == tok): the 0-based index of the first equal
\* element, and 0 when none is equal (argmax of an all-False vector).
ArgMaxEq(xs, tok) ==
    IF \E i \in 1..Len(xs) : xs[i] = tok
    THEN (CHOOSE i \in 1..Len(xs) :
              /\ xs[i] = tok
              /\ \A j \in 1..(i - 1) : xs[j] # tok) - 1
    ELSE 0

\* Mutant of START: the position counted from 1.
START_one_based == ArgMaxEq(RESERVED_TOKENS, TokSTART) + 1

START == ArgMaxEq(RESERVED_TOKENS, TokSTART)
END == ArgMaxEq(RESERVED_TOKENS, TokEND)

(***************************************************************************)
(* The vocabulary: learning, the vocabulary file, loading.                 *)
(***************************************************************************)
Marker == <<"#", "#">>

\* The pieces a run of the learner adds after the reserved tokens: every
\* character of the corpus as a word start and as a continuation, and the
\* longer pieces learned.  The second is learned from a corpus without "b".
BodyLearned ==
    << <<"!">>, <<"a">>, <<"b">>, <<"a", "b">>, <<"#", "#", "a">>,
       <<"#", "#", "b">> >>
BodyLearnedSmall ==
    << <<"!">>, <<"a">>, <<"a", "a">>, <<"#", "#", "a">> >>

LearnedBodies == {BodyLearned, BodyLearnedSmall}

\* The pieces of vocabulary files written by hand: the vocabulary of the
\* specification's concrete scenario, and one with a piece that is a prefix
\* of another piece and without the single-character continuations.
BodyScenario ==
    << <<"h", "e">>, <<"#", "#", "l", "l", "o">>, <<"w", "o", "r">>,
       <<"#", "#", "l", "d">>, <<"!">> >>
BodyOverlap ==
    << <<"a">>, <<"a", "b">>, <<"#", "#", "b", "a">>, <<"!">> >>

SuppliedBodies == {BodyScenario, BodyOverlap}

\* bert_vocab.bert_vocab_from_dataset(dataset, vocab_size, reserved_tokens,
\* bert_tokenizer_params): the reserved tokens in their configured order,
\* then the learned pieces.
bert_vocab_from_dataset(reserved_tokens, learned) == reserved_tokens \o learned

\* write_vocab_file: print(token, file=f) for each token, in order.
write_vocab_file(vocab_list) ==
    Flatten([i \in 1..Len(vocab_list) |-> vocab_list[i] \o <<"\n">>])

\* The line boundaries of str.splitlines() that the model's characters
\* include: line feed, carriage return, form feed.
LineBoundaries == {"\n", "\r", "\f"}

\* Mutant of splitlines: text.split("\n"), a last line after the final
\* line feed included.
RECURSIVE SplitOnLineFeed(_, _, _)
SplitOnLineFeed(s, i, cur) ==
    IF i > Len(s) THEN <<cur>>
    ELSE IF s[i] = "\n" THEN <<cur>> \o SplitOnLineFeed(s, i + 1, <<>>)
    ELSE SplitOnLineFeed(s, i + 1, Append(cur, s[i]))

splitlines_split(s) == SplitOnLineFeed(s, 1, <<>>)

\* str.splitlines(): the lines of a text, line boundaries dropped, "\r\n"
\* one boundary, no empty last line after a final boundary.
RECURSIVE SplitLinesFrom(_, _, _)
SplitLinesFrom(s, i, cur) ==
    IF i > Len(s) THEN (IF cur = <<>> THEN <<>> ELSE <<cur>>)
    ELSE IF s[i] = "\r" /\ i < Len(s) /\ s[i + 1] = "\n"
         THEN <<cur>> \o SplitLinesFrom(s, i + 2, <<>>)
    ELSE IF s[i] \in LineBoundaries
         THEN <<cur>> \o SplitLinesFrom(s, i + 1, <<>>)
    ELSE SplitLinesFrom(s, i + 1, Append(cur, s[i]))

splitlines(s) == SplitLinesFrom(s, 1, <<>>)

\* The id of a piece: the 0-based index of its line (pieces are unique).
InVocab(v, p) == \E i \in 1..Len(v) : v[i] = p
IdOf(v, p) == (CHOOSE i \in 1..Len(v) : v[i] = p) - 1

(***************************************************************************)
(* Normalisation and text.BertTokenizer.tokenize.                          *)
(***************************************************************************)
Lower(c) ==
    CASE c = "A" -> "a"
      [] c = "B" -> "b"
      [] c = "H" -> "h"
      [] c = "W" -> "w"
      [] OTHER -> c

case_fold_utf8(s) == [i \in 1..Len(s) |-> Lower(s[i])]

IsSpace(c) == c = " "
IsPunct(c) == c \in {"!", "#", "[", "]"}

\* The basic tokenizer: split on whitespace, every punctuation character a
\* word of its own.
RECURSIVE SplitWordsFrom(_, _, _)
SplitWordsFrom(s, i, cur) ==
    LET flush == IF cur = <<>> THEN <<>> ELSE <<cur>> IN
    IF i > Len(s) THEN flush
    ELSE IF IsSpace(s[i]) THEN flush \o SplitWordsFrom(s, i + 1, <<>>)
    ELSE IF IsPunct(s[i])
         THEN flush \o << <<s[i]>> >> \o SplitWordsFrom(s, i + 1, <<>>)
    ELSE SplitWordsFrom(s, i + 1, Append(cur, s[i]))

BasicTokenize(s) == SplitWordsFrom(s, 1, <<>>)

\* The piece looked up for word[start..end]: continuation-marked unless it
\* starts the word.
Candidate(word, start, end) ==
    IF start = 1 THEN SubSeq(word, start, end)
    ELSE Marker \o SubSeq(word, start, end)

\* The end of the longest piece matching at start, 0 when none matches.
LongestEnd(v, word, start) ==
    LET ends == {e \in start..Len(word) : InVocab(v, Candidate(word, start, e))}
    IN IF ends = {} THEN 0 ELSE CHOOSE e \in ends : \A f \in ends : f <= e

\* Greedy longest-match-first decomposition from start; <<-1>> on failure.
RECURSIVE WordpieceFrom(_, _, _)
WordpieceFrom(v, word, start) ==
    IF start > Len(word) THEN <<>>
    ELSE LET e == LongestEnd(v, word, start) IN
         IF e = 0 THEN <<-1>>
         ELSE LET rest == WordpieceFrom(v, word, e + 1) IN
              IF rest = <<-1>> THEN <<-1>>
              ELSE <<IdOf(v, Candidate(word, start, e))>> \o rest

\* Mutant of WordpieceTokenize: the shortest matching piece first.
ShortestEnd(v, word, start) ==
    LET ends == {e \in start..Len(word) : InVocab(v, Candidate(word, start, e))}
    IN IF ends = {} THEN 0 ELSE CHOOSE e \in ends : \A f \in ends : e <= f

RECURSIVE WordpieceShortestFrom(_, _, _)
WordpieceShortestFrom(v, word, start) ==
    IF start > Len(word) THEN <<>>
    ELSE LET e == ShortestEnd(v, word, start) IN
         IF e = 0 THEN <<-1>>
         ELSE LET rest == WordpieceShortestFrom(v, word, e + 1) IN
              IF rest = <<-1>> THEN <<-1>>
              ELSE <<IdOf(v, Candidate(word, start, e))>> \o rest

WordpieceTokenize_shortest(v, word) ==
    LET r == WordpieceShortestFrom(v, word, 1) IN
    IF r = <<-1>> THEN <<IdOf(v, TokUNK)>> ELSE r

\* Mutant of WordpieceTokenize: the pieces matched before the failure point
\* are emitted, followed by the unknown-token id.
RECURSIVE WordpiecePartialFrom(_, _, _)
WordpiecePartialFrom(v, word, start) ==
    IF start > Len(word) THEN <<>>
    ELSE LET e == LongestEnd(v, word, start) IN
         IF e = 0 THEN <<IdOf(v, TokUNK)>>
         ELSE <<IdOf(v, Candidate(word, start, e))>>
                  \o WordpiecePartialFrom(v, word, e + 1)

WordpieceTokenize_partial(v, word) == WordpiecePartialFrom(v, word, 1)

\* One word: its piece ids, or the single unknown-token id.
WordpieceTokenize(v, word) ==
    LET r == WordpieceFrom(v, word, 1) IN
    IF r = <<-1>> THEN <<IdOf(v, TokUNK)>> ELSE r

\* text.BertTokenizer.tokenize on one string: word x piece ids.
BertTokenize(v, s) ==
    LET ws == BasicTokenize(s) IN
    [j \in 1..Len(ws) |-> WordpieceTokenize(v, ws[j])]

(***************************************************************************)
(* add_start_end, cleanup_text and the CustomTokenizer methods.            *)
(***************************************************************************)
\* ragged.merge_dims(-2, -1): the word and word-piece axes merged.
merge_dims(ragged) == [i \in 1..Len(ragged) |-> Flatten(ragged[i])]

\* Mutant of add_start_end: the two sentinels exchanged.
add_start_end_swapped(ragged) ==
    [i \in 1..Len(ragged) |-> <<END>> \o ragged[i] \o <<START>>]

\* Mutant of add_start_end: a row without tokens is left unframed.
add_start_end_skip_empty(ragged) ==
    [i \in 1..Len(ragged) |->
        IF ragged[i] = <<>> THEN <<>> ELSE <<START>> \o ragged[i] \o <<END>>]

add_start_end(ragged) ==
    [i \in 1..Len(ragged) |-> <<START>> \o ragged[i] \o <<END>>]

\* Mutant of tokenize: the strings reach self.tokenizer.tokenize as given,
\* without case folding.
tokenize_unfolded(v, batch) ==
    add_start_end(merge_dims([i \in 1..Len(batch) |-> BertTokenize(v, batch[i])]))

tokenize(v, batch) ==
    LET folded == [i \in 1..Len(batch) |-> case_fold_utf8(batch[i])]
        e == [i \in 1..Len(batch) |-> BertTokenize(v, folded[i])]
    IN  add_start_end(merge_dims(e))

(***************************************************************************)
(* text.BertTokenizer.detokenize, cleanup_text, detokenize, lookup.        *)
(***************************************************************************)
\* regex_replace(s, pat, ""): every occurrence of pat dropped, left to right.
RECURSIVE DropAllFrom(_, _, _)
DropAllFrom(s, i, pat) ==
    IF i > Len(s) THEN <<>>
    ELSE IF IsPrefixAt(s, i, pat) THEN DropAllFrom(s, i + Len(pat), pat)
    ELSE <<s[i]>> \o DropAllFrom(s, i + 1, pat)

\* regex_replace(s, "^ +| +$", ""): leading and trailing spaces dropped.
RECURSIVE StripSpaces(_)
StripSpaces(s) ==
    IF s = <<>> THEN s
    ELSE IF Head(s) = " " THEN StripSpaces(Tail(s))
    ELSE IF s[Len(s)] = " " THEN StripSpaces(SubSeq(s, 1, Len(s) - 1))
    ELSE s

\* tf.strings.split(s, sep=" "): nothing for the empty string; consecutive
\* separators delimit empty strings.
RECURSIVE SplitSpacesFrom(_, _, _)
SplitSpacesFrom(s, i, cur) ==
    IF i > Len(s) THEN <<cur>>
    ELSE IF s[i] = " " THEN <<cur>> \o SplitSpacesFrom(s, i + 1, <<>>)
    ELSE SplitSpacesFrom(s, i + 1, Append(cur, s[i]))

SplitSpaces(s) == IF s = <<>> THEN <<>> ELSE SplitSpacesFrom(s, 1, <<>>)

\* tf.gather(vocab, ids) on one row of valid ids.
Gather(v, ids) == [k \in 1..Len(ids) |-> v[ids[k] + 1]]

\* text.BertTokenizer.detokenize on one row of ids: the pieces, joined with
\* spaces, " ##" collapsed, split into words again.  An id above the
\* vocabulary is looked up as the unknown token.
BertDetokenize(v, ids) ==
    LET table == Append(v, TokUNK)
        txt_tokens == Gather(table, [k \in 1..Len(ids) |-> Min(ids[k], Len(v))])
        joined == JoinWith(txt_tokens, <<" ">>)
        collapsed == DropAllFrom(joined, 1, <<" ">> \o Marker)
    IN  SplitSpaces(StripSpaces(collapsed))

\* Mutant of cleanup_text: the test for "[UNK]" inverted.
cleanup_text_inverted(reserved_tokens, token_txt) ==
    LET bad_tokens == {reserved_tokens[k] : k \in
                          {n \in 1..Len(reserved_tokens) : reserved_tokens[n] = TokUNK}}
        result == [i \in 1..Len(token_txt) |->
                      SelectSeq(token_txt[i], LAMBDA w : w \notin bad_tokens)]
    IN  [i \in 1..Len(token_txt) |-> JoinWith(result[i], <<" ">>)]

\* Mutant of cleanup_text: reduce_join over every axis, the words of all rows
\* joined into each row's string.
cleanup_text_all_axes(reserved_tokens, token_txt) ==
    LET bad_tokens == {reserved_tokens[k] : k \in
                          {n \in 1..Len(reserved_tokens) : reserved_tokens[n] # TokUNK}}
        result == [i \in 1..Len(token_txt) |->
                      SelectSeq(token_txt[i], LAMBDA w : w \notin bad_tokens)]
    IN  [i \in 1..Len(token_txt) |-> JoinWith(Flatten(result), <<" ">>)]

\* cleanup_text(reserved_tokens, token_txt), token_txt a batch of word lists.
cleanup_text(reserved_tokens, token_txt) ==
    LET bad_tokens == {reserved_tokens[k] : k \in
                          {n \in 1..Len(reserved_tokens) : reserved_tokens[n] # TokUNK}}
        bad_cells(w) == w \in bad_tokens
        result == [i \in 1..Len(token_txt) |->
                      SelectSeq(token_txt[i], LAMBDA w : ~bad_cells(w))]
    IN  [i \in 1..Len(token_txt) |-> JoinWith(result[i], <<" ">>)]

detokenize(v, batch) ==
    cleanup_text(RESERVED_TOKENS,
                 [i \in 1..Len(batch) |-> BertDetokenize(v, batch[i])])

lookup(v, token_ids) == [i \in 1..Len(token_ids) |-> Gather(v, token_ids[i])]

get_vocab_size(v) == Len(v)

get_reserved_tokens(reserved_tokens) == reserved_tokens

\* tf.gather(params, indices) with params of n rows raises
\* InvalidArgumentError when an index is outside 0..n-1.
GatherRaises(n, ids) == \E k \in 1..Len(ids) : ids[k] < 0 \/ ids[k] >= n

\* The gather of text.BertTokenizer.detokenize is on the ids clamped to the
\* vocabulary size, in a table one longer than the vocabulary.
BertDetokenizeRaises(v, ids) ==
    GatherRaises(Len(v) + 1, [k \in 1..Len(ids) |-> Min(ids[k], Len(v))])

(***************************************************************************)
(* Inputs.                                                                 *)
(***************************************************************************)
TextAlphabet == {"a", "b", "A", " ", "!"}

HelloWorld == <<"h", "e", "l", "l", "o", " ", "w", "o", "r", "l", "d", "!">>
HelloWorldCased == <<"H", "e", "l", "l", "o", " ", "W", "o", "r", "l", "d", "!">>
HelloAb == <<"h", "e", "l", "l", "o", " ", "a", "b", " ", "!">>

ScenarioTexts == {HelloWorld, HelloWorldCased, HelloAb}

Texts == SeqsUpTo(TextAlphabet, MaxLen) \cup ScenarioTexts

\* A batch: no string, one string, or the empty string or the scenario
\* string followed by a string.
Batches ==
    {<<>>} \cup {<<t>> : t \in Texts}
           \cup {<<m, t>> : m \in {<<>>, HelloWorld},
                            t \in SeqsUpTo(TextAlphabet, MaxLen - 1)}

\* The records taken for the vocabulary: the English texts of a sample with
\* the characters a, b and !, and of one without b.
SampleAB == << <<"A", "b", " ", "a", "!">>, <<"b">> >>
SampleA == << <<"A", "a", " ", "a", "!">> >>

VocabSamples == {SampleAB, SampleA}

\* The learner adds pieces made of the characters of the texts it is given.
CharsOf(ss) == UNION {{ss[i][k] : k \in 1..Len(ss[i])} : i \in 1..Len(ss)}
LearnedFrom(sample) ==
    {learned \in LearnedBodies : CharsOf(learned) \subseteq CharsOf(sample) \cup {"#"}}

ValidIds(v) == 0..(Len(v) - 1)

IdBatches(v) ==
    {<<>>} \cup {<<ids>> : ids \in SeqsUpTo(ValidIds(v), MaxIds)}
           \cup {<<<<START, IdOf(v, TokUNK), END>>, ids>> :
                     ids \in SeqsUpTo(ValidIds(v), MaxIds - 1)}

\* Ids in and around the range of the vocabulary, and batches of one row
\* of them.
AnyIds(v) == (-1)..(Len(v) + 1)

AnyIdBatches(v) == {<<ids>> : ids \in SeqsUpTo(AnyIds(v), MaxIds - 1)}

\* Batches of valid ids to frame: no row, one row, or an empty row followed
\* by a row.
UnframedBatches(v) ==
    {<<>>} \cup {<<ids>> : ids \in SeqsUpTo(ValidIds(v), MaxIds - 1)}
           \cup {<<<<>>, ids>> : ids \in SeqsUpTo(ValidIds(v), MaxIds - 2)}

(***************************************************************************)
(* The state machine.                                                      *)
(***************************************************************************)
Init ==
    /\ pc = "learn"
    /\ eng_vocab = <<>>
    /\ vocab_file = <<>>
    /\ vocab = <<>>
    /\ self_reserved_tokens = <<>>
    /\ op = "none"
    /\ strings = <<>>
    /\ enc = <<>>
    /\ tokens = <<>>
    /\ tokenized = <<>>
    /\ words = <<>>
    /\ round_trip = <<>>
    /\ ret = <<>>
    /\ raised = "none"
    /\ vocab_sample = <<>>
    /\ sample_eng = <<>>
    /\ dataset = <<>>
    /\ val_saved = <<>>
    /\ train_saved = <<>>

\* vocab_sample = train_dataset.take(config.N_SAMPLES_TOKENIZER)
\* sample_eng = vocab_sample.map(lambda x: case_fold_utf8(x[0]))
\* eng_vocab = bert_vocab.bert_vocab_from_dataset(sample_eng..., **bert_vocab_args)
Learn ==
    /\ pc = "learn"
    /\ \E sample \in VocabSamples :
           LET folded == [i \in 1..Len(sample) |-> case_fold_utf8(sample[i])] IN
           /\ vocab_sample' = sample
           /\ sample_eng' = folded
           /\ \E learned \in LearnedFrom(folded) :
                  eng_vocab' = bert_vocab_from_dataset(RESERVED_TOKENS, learned)
    /\ pc' = "write"
    /\ UNCHANGED <<vocab_file, vocab, op, strings, enc, tokens, tokenized,
                   words, round_trip, ret, raised>>
    /\ UNCHANGED <<self_reserved_tokens, dataVars>>

\* write_vocab_file(eng_vocab_path, eng_vocab)
WriteVocabFile ==
    /\ pc = "write"
    /\ vocab_file' = write_vocab_file(eng_vocab)
    /\ pc' = "construct"
    /\ UNCHANGED <<eng_vocab, vocab, op, strings, enc, tokens, tokenized,
                   words, round_trip, ret, raised>>
    /\ UNCHANGED <<self_reserved_tokens, sampleVars, dataVars>>

\* A vocabulary file in the vocabulary file format, written by hand, is
\* at the path the tokenizer is constructed from.
ProvideVocabFile ==
    /\ pc = "learn"
    /\ \E pieces \in SuppliedBodies :
           vocab_file' = write_vocab_file(RESERVED_TOKENS \o pieces)
    /\ pc' = "construct"
    /\ UNCHANGED <<eng_vocab, vocab, op, strings, enc, tokens, tokenized,
                   words, round_trip, ret, raised>>
    /\ UNCHANGED <<self_reserved_tokens, sampleVars, dataVars>>

\* tokenizers.eng = CustomTokenizer(config, eng_vocab_path)
Construct ==
    /\ pc = "construct"
    /\ self_reserved_tokens' = RESERVED_TOKENS
    /\ vocab' = splitlines(vocab_file)
    /\ pc' = "ready"
    /\ UNCHANGED <<eng_vocab, vocab_file, op, strings, enc, tokens, tokenized,
                   words, round_trip, ret, raised>>
    /\ UNCHANGED <<sampleVars, dataVars>>

\* tokens = tokenizers.eng.tokenize(batch)
Tokenize ==
    /\ pc = "ready"
    /\ op = "none"
    /\ \E batch \in Batches :
           /\ strings' = batch
           /\ enc' = [i \in 1..Len(batch) |->
                         BertTokenize(vocab, case_fold_utf8(batch[i]))]
           /\ tokens' = tokenize(vocab, batch)
    /\ op' = "tokenize"
    /\ tokenized' = <<>>
    /\ words' = <<>>
    /\ round_trip' = <<>>
    /\ UNCHANGED <<pc, eng_vocab, vocab_file, vocab, ret, raised>>
    /\ UNCHANGED <<self_reserved_tokens, sampleVars, dataVars>>

\* tokenizers.eng.detokenize(batch) on a batch of valid ids
Detokenize ==
    /\ pc = "ready"
    /\ op = "none"
    /\ \E batch \in IdBatches(vocab) :
           /\ tokenized' = batch
           /\ words' = [i \in 1..Len(batch) |-> BertDetokenize(vocab, batch[i])]
           /\ round_trip' = detokenize(vocab, batch)
    /\ op' = "detokenize"
    /\ strings' = <<>>
    /\ enc' = <<>>
    /\ tokens' = <<>>
    /\ UNCHANGED <<pc, eng_vocab, vocab_file, vocab, ret, raised>>
    /\ UNCHANGED <<self_reserved_tokens, sampleVars, dataVars>>

\* round_trip = tokenizers.eng.detokenize(tokens)
RoundTrip ==
    /\ pc = "ready"
    /\ op = "tokenize"
    /\ tokenized' = tokens
    /\ words' = [i \in 1..Len(tokens) |-> BertDetokenize(vocab, tokens[i])]
    /\ round_trip' = detokenize(vocab, tokens)
    /\ op' = "roundtrip"
    /\ UNCHANGED <<pc, eng_vocab, vocab_file, vocab, strings, enc, tokens,
                   ret, raised>>
    /\ UNCHANGED <<self_reserved_tokens, sampleVars, dataVars>>

\* tokenizers.eng.detokenize(batch) on a batch of any ids: the gather of
\* self.tokenizer.detokenize raises, or cleanup_text returns.
DetokenizeAnyIds ==
    /\ pc = "ready"
    /\ op = "none"
    /\ \E batch \in AnyIdBatches(vocab) :
           /\ tokenized' = batch
           /\ IF \E i \in 1..Len(batch) : BertDetokenizeRaises(vocab, batch[i])
              THEN /\ raised' = "InvalidArgumentError"
                   /\ words' = <<>>
                   /\ round_trip' = <<>>
              ELSE /\ raised' = "none"
                   /\ words' = [i \in 1..Len(batch) |->
                                    BertDetokenize(vocab, batch[i])]
                   /\ round_trip' = detokenize(vocab, batch)
    /\ op' = "detokenize_any"
    /\ UNCHANGED <<pc, eng_vocab, vocab_file, vocab, strings, enc, tokens, ret>>
    /\ UNCHANGED <<self_reserved_tokens, sampleVars, dataVars>>

\* token_batch = add_start_end(token_batch)
\* words = eng_tokenizer.detokenize(token_batch); cleanup_text(..., words)
DetokenizeFramed ==
    /\ pc = "ready"
    /\ op = "none"
    /\ \E batch \in UnframedBatches(vocab) :
           LET token_batch == add_start_end(batch) IN
           /\ tokenized' = token_batch
           /\ words' = [i \in 1..Len(token_batch) |->
                            BertDetokenize(vocab, token_batch[i])]
           /\ round_trip' = detokenize(vocab, token_batch)
    /\ op' = "detokenize_framed"
    /\ UNCHANGED <<pc, eng_vocab, vocab_file, vocab, strings, enc, tokens, ret,
                   raised>>
    /\ UNCHANGED <<self_reserved_tokens, sampleVars, dataVars>>

\* Mutant of Lookup: the call also assigns to self.vocab, the unknown token
\* put at the first id looked up.
Lookup_assigning ==
    /\ pc = "ready"
    /\ op = "none"
    /\ \E token_ids \in {b \in AnyIdBatches(vocab) :
                             \A i \in 1..Len(b) :
                                 ~GatherRaises(get_vocab_size(vocab), b[i])} :
           /\ tokenized' = token_ids
           /\ ret' = lookup(vocab, token_ids)
           /\ vocab' = IF token_ids[1] = <<>> THEN vocab
                       ELSE [vocab EXCEPT ![token_ids[1][1] + 1] = TokUNK]
    /\ raised' = "none"
    /\ op' = "lookup"
    /\ UNCHANGED <<pc, eng_vocab, vocab_file, strings, enc, tokens, words,
                   round_trip>>
    /\ UNCHANGED <<self_reserved_tokens, sampleVars, dataVars>>

\* text_tokens = tokenizers.eng.lookup(token_ids)
Lookup ==
    /\ pc = "ready"
    /\ op = "none"
    /\ \E token_ids \in AnyIdBatches(vocab) :
           /\ tokenized' = token_ids
           /\ IF \E i \in 1..Len(token_ids) :
                     GatherRaises(get_vocab_size(vocab), token_ids[i])
              THEN /\ raised' = "InvalidArgumentError"
                   /\ ret' = <<>>
              ELSE /\ raised' = "none"
                   /\ ret' = lookup(vocab, token_ids)
    /\ op' = "lookup"
    /\ UNCHANGED <<pc, eng_vocab, vocab_file, vocab, strings, enc, tokens, words,
                   round_trip>>
    /\ UNCHANGED <<self_reserved_tokens, sampleVars, dataVars>>

\* tokenizers.eng.get_vocab_size()
GetVocabSize ==
    /\ pc = "ready"
    /\ op = "none"
    /\ ret' = get_vocab_size(vocab)
    /\ op' = "get_vocab_size"
    /\ UNCHANGED <<pc, eng_vocab, vocab_file, vocab, strings, enc, tokens,
                   tokenized, words, round_trip, raised>>
    /\ UNCHANGED <<self_reserved_tokens, sampleVars, dataVars>>

\* tokenizers.eng.get_reserved_tokens()
GetReservedTokens ==
    /\ pc = "ready"
    /\ op = "none"
    /\ ret' = get_reserved_tokens(self_reserved_tokens)
    /\ op' = "get_reserved_tokens"
    /\ UNCHANGED <<pc, eng_vocab, vocab_file, vocab, strings, enc, tokens,
                   tokenized, words, round_trip, raised>>
    /\ UNCHANGED <<self_reserved_tokens, sampleVars, dataVars>>

\* token_batch = eng_tokenizer.tokenize(eng_examples).merge_dims(-2, -1), the
\* examples a batch of sample_eng: the underlying tokenizer used directly.
DirectTokenize ==
    /\ pc = "ready"
    /\ op = "none"
    /\ sample_eng # <<>>
    /\ LET eng_examples == sample_eng IN
       /\ strings' = eng_examples
       /\ enc' = [i \in 1..Len(eng_examples) |->
                      BertTokenize(vocab, eng_examples[i])]
       /\ tokens' = merge_dims([i \in 1..Len(eng_examples) |->
                                   BertTokenize(vocab, eng_examples[i])])
    /\ op' = "direct"
    /\ UNCHANGED <<pc, eng_vocab, vocab_file, vocab, tokenized, words,
                   round_trip, ret, raised>>
    /\ UNCHANGED <<self_reserved_tokens, sampleVars, dataVars>>

\* The caller is done with the results of its last call.
Return ==
    /\ pc = "ready"
    /\ op # "none"
    /\ op' = "none"
    /\ strings' = <<>>
    /\ enc' = <<>>
    /\ tokens' = <<>>
    /\ tokenized' = <<>>
    /\ words' = <<>>
    /\ round_trip' = <<>>
    /\ ret' = <<>>
    /\ raised' = "none"
    /\ UNCHANGED <<pc, eng_vocab, vocab_file, vocab>>
    /\ UNCHANGED <<self_reserved_tokens, sampleVars, dataVars>>

Next ==
    \/ Learn
    \/ WriteVocabFile
    \/ ProvideVocabFile
    \/ Construct
    \/ Tokenize
    \/ Detokenize
    \/ RoundTrip
    \/ DetokenizeAnyIds
    \/ DetokenizeFramed
    \/ Lookup
    \/ GetVocabSize
    \/ GetReservedTokens
    \/ DirectTokenize
    \/ Return

Spec == Init /\ [][Next]_vars

(***************************************************************************)
(* Properties.                                                             *)
(***************************************************************************)
\* The ids of the sentinel and unknown pieces in the loaded vocabulary.
start_id == IdOf(vocab, TokSTART)
end_id == IdOf(vocab, TokEND)
unk_id == IdOf(vocab, TokUNK)

\* The words of row i of the last tokenize call, after normalisation.
WordsOf(i) == BasicTokenize(case_fold_utf8(strings[i]))

\* C1. Framing invariant: for every input text (the empty text and texts
\* whose words all map to the unknown token included) the id sequence
\* tokenize returns starts with the start-token id, ends with the end-token
\* id, and is two longer than the core (unframed) token ids.
C1_Framing ==
    op \in {"tokenize", "roundtrip"} =>
        /\ Len(tokens) = Len(strings)
        /\ \A i \in 1..Len(tokens) :
               LET core_tokens == Flatten(enc[i]) IN
               /\ Len(tokens[i]) = Len(core_tokens) + 2
               /\ tokens[i][1] = start_id
               /\ tokens[i][Len(tokens[i])] = end_id

\* C1 witness: a batch of the empty text and a text of two words, both
\* mapped to the unknown token, has been tokenized.
C1_Witness ==
    /\ op = "tokenize"
    /\ strings = << <<>>, <<"a", " ", "b">> >>
    /\ enc = << <<>>, << <<unk_id>>, <<unk_id>> >> >>
    /\ tokens = << <<2, 3>>, <<2, 1, 1, 3>> >>

\* The number of ids of a row that are the unknown-token id.
UnknownIds(ids) == Cardinality({k \in 1..Len(ids) : ids[k] = unk_id})

\* C2. Cleanup invariant: for every sequence of valid ids, the string
\* detokenize returns contains no reserved token other than the unknown
\* token, and every occurrence of the unknown token in the input appears
\* verbatim in the output.
C2_CleanupInvariant ==
    op \in {"detokenize", "roundtrip"} =>
        \A i \in 1..Len(tokenized) :
            /\ ~Contains(round_trip[i], TokPAD)
            /\ ~Contains(round_trip[i], TokSTART)
            /\ ~Contains(round_trip[i], TokEND)
            /\ CountOf(round_trip[i], TokUNK) >= UnknownIds(tokenized[i])

\* Greedy decomposition, stated without recursion.  cuts are the ends of the
\* pieces of word[1..upto] other than the last.
SegStart(cuts, e) ==
    LET before == {c \in cuts : c < e} IN
    IF before = {} THEN 1
    ELSE (CHOOSE c \in before : \A d \in before : d <= c) + 1

\* No vocabulary piece matches a prefix of the text remaining at position p.
NoPieceAt(v, w, p) == \A f \in p..Len(w) : ~InVocab(v, Candidate(w, p, f))

\* Every piece of word[1..upto] is a vocabulary piece and the longest one
\* that matches at its start.
GreedySegments(v, w, cuts, upto) ==
    \A e \in cuts \cup {upto} :
        LET p == SegStart(cuts, e) IN
        /\ InVocab(v, Candidate(w, p, e))
        /\ \A f \in (e + 1)..Len(w) : ~InVocab(v, Candidate(w, p, f))

\* At some position the greedy decomposition reaches, no piece matches.
FallsBack(v, w) ==
    \E k \in 0..(Len(w) - 1) :
        /\ NoPieceAt(v, w, k + 1)
        /\ \/ k = 0
           \/ \E cuts \in SUBSET (1..(k - 1)) : GreedySegments(v, w, cuts, k)

\* Pieces matched before the failure point exist.
FallsBackAfterMatch(v, w) ==
    \E k \in 1..(Len(w) - 1) :
        /\ NoPieceAt(v, w, k + 1)
        /\ \E cuts \in SUBSET (1..(k - 1)) : GreedySegments(v, w, cuts, k)

\* A character of the word occurs in no vocabulary piece.
PieceBody(p) == IF IsPrefixAt(p, 1, Marker) THEN SubSeq(p, 3, Len(p)) ELSE p
HasAbsentChar(v, w) ==
    \E k \in 1..Len(w) :
        \A n \in 1..Len(v) :
            \A m \in 1..Len(PieceBody(v[n])) : PieceBody(v[n])[m] # w[k]

\* The text a sequence of piece ids spells: the first piece as it is, the
\* others with their continuation marker dropped.
ContinuationMarked(ids) ==
    /\ ids # <<>> => ~IsPrefixAt(vocab[ids[1] + 1], 1, Marker)
    /\ \A k \in 2..Len(ids) : IsPrefixAt(vocab[ids[k] + 1], 1, Marker)
PiecesText(ids) == Flatten([k \in 1..Len(ids) |-> PieceBody(vocab[ids[k] + 1])])

\* C3. Unknown fallback is all-or-nothing: a word for which, at some
\* position, no vocabulary piece matches a prefix of the remaining text
\* yields exactly one unknown-token id, with none of the pieces matched
\* before the failure point; the other words of the text are unaffected.
C3_UnknownAllOrNothing ==
    op = "tokenize" =>
        \A i \in 1..Len(strings) :
            /\ Len(enc[i]) = Len(WordsOf(i))
            /\ tokens[i] = <<start_id>> \o Flatten(enc[i]) \o <<end_id>>
            /\ \A j \in 1..Len(enc[i]) :
                   LET w == WordsOf(i)[j] IN
                   /\ FallsBack(vocab, w) => enc[i][j] = <<unk_id>>
                   /\ HasAbsentChar(vocab, w) => enc[i][j] = <<unk_id>>
                   /\ ~FallsBack(vocab, w) =>
                          /\ \A k \in 1..Len(enc[i][j]) : enc[i][j][k] # unk_id
                          /\ PiecesText(enc[i][j]) = w

\* C3 witness: a text with a word that fails after a piece has matched and
\* a word that decomposes has been tokenized.
C3_Witness ==
    /\ op = "tokenize"
    /\ \E i \in 1..Len(strings) :
           /\ Len(WordsOf(i)) = 2
           /\ FallsBackAfterMatch(vocab, WordsOf(i)[1])
           /\ ~FallsBack(vocab, WordsOf(i)[2])
           /\ enc[i][1] = <<unk_id>>
           /\ enc[i][2] # <<unk_id>>
           /\ Len(tokens[i]) = 4

\* The word is a concatenation of vocabulary pieces: a word-start piece
\* followed by continuation pieces.
Representable(v, w) ==
    \E cuts \in SUBSET (1..(Len(w) - 1)) :
        \A e \in cuts \cup {Len(w)} :
            InVocab(v, Candidate(w, SegStart(cuts, e), e))

\* The normalized words and punctuation marks of row i joined by single
\* spaces.
NormalizedJoin(i) == JoinWith(WordsOf(i), <<" ">>)

\* C4 as stated. Round trip: for any text composed only of pieces
\* representable in the vocabulary, detokenize(tokenize(t)) is the
\* normalized words and punctuation marks of t joined by single spaces.
C4_RoundTripRepresentable ==
    op = "roundtrip" =>
        \A i \in 1..Len(strings) :
            (\A j \in 1..Len(WordsOf(i)) : Representable(vocab, WordsOf(i)[j]))
                => round_trip[i] = NormalizedJoin(i)

\* C4 as amended. Round trip: for any text none of whose words is tokenized
\* to the unknown token, detokenize(tokenize(t)) is the normalized words and
\* punctuation marks of t joined by single spaces.
C4_RoundTrip ==
    op = "roundtrip" =>
        \A i \in 1..Len(strings) :
            (\A k \in 1..Len(tokens[i]) : tokens[i][k] # unk_id)
                => round_trip[i] = NormalizedJoin(i)

\* C4 witness: a text with an upper-case letter, a word of two pieces and a
\* punctuation mark has made the round trip.
C4_Witness ==
    /\ op = "roundtrip"
    /\ strings = << <<"A", "b", "b", "!">> >>
    /\ vocab = RESERVED_TOKENS \o BodyLearned
    /\ enc = << << <<IdOf(vocab, <<"a", "b">>), IdOf(vocab, <<"#", "#", "b">>)>>,
                   <<IdOf(vocab, <<"!">>)>> >> >>
    /\ round_trip = << <<"a", "b", "b", " ", "!">> >>

\* C5. Concrete scenario: with the vocabulary [PAD] [UNK] [START] [END] he
\* ##llo wor ##ld ! (ids 0 to 8), tokenizing "hello world!" yields the ids
\* 2 4 5 6 7 8 3, and detokenizing them with cleanup yields "hello world !".
C5_Scenario ==
    (/\ vocab = RESERVED_TOKENS \o BodyScenario
     /\ strings = <<HelloWorld>>)
        => /\ op \in {"tokenize", "roundtrip"} =>
                  tokens = << <<2, 4, 5, 6, 7, 8, 3>> >>
           /\ op = "roundtrip" =>
                  round_trip = << <<"h", "e", "l", "l", "o", " ",
                                    "w", "o", "r", "l", "d", " ", "!">> >>

\* C5 witness: the scenario's ids have been detokenized.
C5_Witness ==
    /\ op = "roundtrip"
    /\ vocab = RESERVED_TOKENS \o BodyScenario
    /\ strings = <<HelloWorld>>
    /\ tokenized = << <<2, 4, 5, 6, 7, 8, 3>> >>

\* C6. Greedy longest-match-first decomposition: for every word that does
\* not fall back to unknown, each emitted piece is the longest vocabulary
\* piece (continuation-marked unless it starts the word) that matches a
\* prefix of the text remaining at its offset, and the emitted pieces, with
\* continuation markers dropped, concatenate to exactly the word.
C6_GreedyLongestMatch ==
    op = "tokenize" =>
        \A i \in 1..Len(strings) :
            \A j \in 1..Len(enc[i]) :
                LET w == WordsOf(i)[j]
                    ids == enc[i][j]
                IN  ids # <<unk_id>> =>
                        /\ ContinuationMarked(ids)
                        /\ PiecesText(ids) = w
                        /\ \A k \in 1..Len(ids) :
                               LET p == Len(PiecesText(SubSeq(ids, 1, k - 1))) + 1
                                   e == Len(PiecesText(SubSeq(ids, 1, k)))
                               IN  /\ vocab[ids[k] + 1] = Candidate(w, p, e)
                                   /\ \A f \in (e + 1)..Len(w) :
                                          ~InVocab(vocab, Candidate(w, p, f))

\* C6 witness: a word of two pieces has been tokenized whose first piece
\* has a shorter vocabulary piece as a prefix.
C6_Witness ==
    /\ op = "tokenize"
    /\ \E i \in 1..Len(strings) :
           \E j \in 1..Len(enc[i]) :
               /\ Len(enc[i][j]) = 2
               /\ Len(vocab[enc[i][j][1] + 1]) = 2
               /\ InVocab(vocab, SubSeq(WordsOf(i)[j], 1, 1))

\* C7. Sentinel ids agree between build and inference: in every vocabulary
\* learned and written to the vocabulary file the reserved tokens occupy ids
\* 0..len(reserved)-1 in their configured order, so the ids framing derives
\* from the positions of "[START]" and "[END]" in the reserved-token list
\* are the ids whose vocabulary pieces are "[START]" and "[END]".
C7_SentinelIds ==
    /\ pc = "write" => eng_vocab # <<>>
    /\ eng_vocab # <<>> =>
           SubSeq(eng_vocab, 1, Len(RESERVED_TOKENS)) = RESERVED_TOKENS
    /\ pc \in {"construct", "ready"} =>
           IsPrefixAt(vocab_file, 1,
                      Flatten([k \in 1..Len(RESERVED_TOKENS) |->
                                  RESERVED_TOKENS[k] \o <<"\n">>]))
    /\ pc = "ready" =>
           /\ SubSeq(vocab, 1, Len(RESERVED_TOKENS)) = RESERVED_TOKENS
           /\ vocab[START + 1] = TokSTART
           /\ vocab[END + 1] = TokEND
    /\ op = "tokenize" =>
           \A i \in 1..Len(tokens) :
               /\ vocab[tokens[i][1] + 1] = TokSTART
               /\ vocab[tokens[i][Len(tokens[i])] + 1] = TokEND

\* C7 witness: a tokenizer built from a learned, written and loaded
\* vocabulary has framed a text.
C7_Witness ==
    /\ pc = "ready"
    /\ op = "tokenize"
    /\ vocab_file = write_vocab_file(eng_vocab)
    /\ vocab = eng_vocab
    /\ Len(vocab) > Len(RESERVED_TOKENS)
    /\ tokens = << <<START, END>> >>

(***************************************************************************)
(* The vocabulary file on its own: write_vocab_file called with any list   *)
(* of pieces, and a CustomTokenizer constructed from the file written.     *)
(***************************************************************************)
MaxPieceLen == 2
MaxVocab == 2

PieceAlphabet == {"a", "\n", "\r", "\f"}

Pieces == SeqsUpTo(PieceAlphabet, MaxPieceLen)

VocabLists == SeqsUpTo(Pieces, MaxVocab)

InitFile ==
    /\ pc = "write"
    /\ eng_vocab \in VocabLists
    /\ vocab_file = <<>>
    /\ vocab = <<>>
    /\ self_reserved_tokens = <<>>
    /\ op = "none"
    /\ strings = <<>>
    /\ enc = <<>>
    /\ tokens = <<>>
    /\ tokenized = <<>>
    /\ words = <<>>
    /\ round_trip = <<>>
    /\ ret = <<>>
    /\ raised = "none"
    /\ vocab_sample = <<>>
    /\ sample_eng = <<>>
    /\ dataset = <<>>
    /\ val_saved = <<>>
    /\ train_saved = <<>>

NextFile ==
    \/ WriteVocabFile
    \/ Construct

SpecFile == InitFile /\ [][NextFile]_vars

\* No piece of the list contains a line boundary.
NoLineBreak(vocab_list) ==
    \A i \in 1..Len(vocab_list) :
        \A k \in 1..Len(vocab_list[i]) : vocab_list[i][k] \notin LineBoundaries

\* C11. Vocabulary file round trip: the file written holds piece i on line
\* i, each followed by a line feed and nothing else, and for every
\* vocabulary whose pieces contain no line break the vocabulary loaded from
\* the file has the same pieces at the same ids and the same size.
C11_FileRoundTrip ==
    /\ pc \in {"construct", "ready"} =>
           vocab_file = Flatten([i \in 1..Len(eng_vocab) |->
                                    eng_vocab[i] \o <<"\n">>])
    /\ (pc = "ready" /\ NoLineBreak(eng_vocab)) =>
           /\ get_vocab_size(vocab) = Len(eng_vocab)
           /\ \A id \in 0..(Len(eng_vocab) - 1) : vocab[id + 1] = eng_vocab[id + 1]

\* C11 witness: a vocabulary of two pieces without line breaks, the last
\* one empty, has been written and loaded.
C11_Witness ==
    /\ pc = "ready"
    /\ eng_vocab = << <<"a", "a">>, <<>> >>
    /\ vocab_file = <<"a", "a", "\n", "\n">>
    /\ vocab = eng_vocab

(***************************************************************************)
(* Errors of detokenize and lookup.                                        *)
(***************************************************************************)
\* An id of the batch is outside 0..vocab_size-1.
HasOutOfRangeId(batch) ==
    \E i \in 1..Len(batch) :
        \E k \in 1..Len(batch[i]) : batch[i][k] \notin ValidIds(vocab)

\* C13. Detokenizing or looking up a sequence that contains an id outside
\* 0..vocab_size-1 raises an error: no string and no piece is returned for
\* the call, and the id is not clamped, replaced or dropped.
C13_OutOfRangeFatal ==
    (op \in {"detokenize_any", "lookup"} /\ HasOutOfRangeId(tokenized)) =>
        /\ raised # "none"
        /\ round_trip = <<>>
        /\ ret = <<>>

\* Looking up an out-of-range id raises; so does detokenizing a negative id.
C13_LookupFatal ==
    /\ (op = "lookup" /\ HasOutOfRangeId(tokenized)) =>
           (raised # "none" /\ ret = <<>>)
    /\ (op = "detokenize_any"
           /\ \E i \in 1..Len(tokenized) :
                  \E k \in 1..Len(tokenized[i]) : tokenized[i][k] < 0) =>
           (raised # "none" /\ round_trip = <<>>)

(***************************************************************************)
(* Normalisation at build time and at inference time.                      *)
(***************************************************************************)
\* C14. Normalization is identical at build time and at inference time:
\* every text handed to the vocabulary learner is the case-folded form of a
\* record of the sample, and every text that reaches the word-piece
\* tokenizer, through the exported tokenize or through the underlying
\* tokenizer used directly, is the case-folded form of the text given.
C14_SameNormalization ==
    /\ Len(sample_eng) = Len(vocab_sample)
    /\ \A i \in 1..Len(vocab_sample) :
           sample_eng[i] = case_fold_utf8(vocab_sample[i])
    /\ op \in {"tokenize", "roundtrip"} =>
           \A i \in 1..Len(strings) :
               LET reached == case_fold_utf8(strings[i]) IN
               /\ enc[i] = BertTokenize(vocab, reached)
               /\ tokens[i] = <<START>> \o Flatten(enc[i]) \o <<END>>
    /\ op = "direct" =>
           /\ Len(strings) = Len(vocab_sample)
           /\ \A i \in 1..Len(strings) :
                  LET reached == case_fold_utf8(vocab_sample[i]) IN
                  /\ strings[i] = reached
                  /\ enc[i] = BertTokenize(vocab, reached)

\* C14 witness: the vocabulary was learned from a sample with an upper-case
\* letter, and a text with an upper-case letter has been tokenized to the
\* ids of its lower-case pieces.
C14_Witness ==
    /\ vocab_sample = SampleAB
    /\ sample_eng # vocab_sample
    /\ vocab = RESERVED_TOKENS \o BodyLearned
    /\ op = "tokenize"
    /\ strings = << <<"A", "b">> >>
    /\ tokens = << <<START, IdOf(vocab, <<"a", "b">>), END>> >>

\* The underlying tokenizer has been used directly on the sample's texts.
C14_WitnessDirect ==
    /\ op = "direct"
    /\ vocab_sample = SampleAB
    /\ strings = << <<"a", "b", " ", "a", "!">>, <<"b">> >>

(***************************************************************************)
(* The vocabulary after construction.                                      *)
(***************************************************************************)
\* C16. Build-then-freeze: once the tokenizer has been constructed, every
\* tokenize, detokenize, lookup, get_vocab_size and get_reserved_tokens call
\* leaves the vocabulary (its pieces, their ids, its size), the vocabulary
\* file and the reserved-token list as they were, and the two getters
\* return that size and that list.
C16_BuildThenFreeze ==
    [][pc = "ready" =>
          /\ pc' = "ready"
          /\ vocab' = vocab
          /\ get_vocab_size(vocab') = get_vocab_size(vocab)
          /\ vocab_file' = vocab_file
          /\ self_reserved_tokens' = self_reserved_tokens
          /\ self_reserved_tokens' = RESERVED_TOKENS
          /\ op' = "get_vocab_size" => ret' = Len(vocab)
          /\ op' = "get_reserved_tokens" => ret' = self_reserved_tokens]_vars

\* C16 witness: a constructed tokenizer has looked up ids of its
\* vocabulary, and the vocabulary is still the lines of the file.
C16_Witness ==
    /\ pc = "ready"
    /\ op = "lookup"
    /\ tokenized = << <<START, 4>> >>
    /\ ret = << <<TokSTART, vocab[5]>> >>
    /\ vocab = splitlines(vocab_file)
    /\ self_reserved_tokens = RESERVED_TOKENS

(***************************************************************************)
(* The texts of a batch.                                                   *)
(***************************************************************************)
\* The batch with its rows in the opposite order.
Reversed(batch) == [i \in 1..Len(batch) |-> batch[Len(batch) + 1 - i]]

\* C17. Independence of the texts of a batch: the ids tokenize returns for
\* each text of a batch of several texts, and the string detokenize returns
\* for each id sequence of a batch of several, are those returned when it
\* is processed alone, in the same order within the row, and processing the
\* batch in the opposite order gives the same rows in the opposite order.
C17_BatchIndependence ==
    /\ op \in {"tokenize", "roundtrip"} =>
           /\ Len(tokens) = Len(strings)
           /\ Len(strings) > 1 =>
                  /\ \A i \in 1..Len(strings) :
                         tokens[i] = tokenize(vocab, <<strings[i]>>)[1]
                  /\ tokenize(vocab, Reversed(strings)) = Reversed(tokens)
    /\ op \in {"detokenize", "roundtrip", "detokenize_framed"} =>
           /\ Len(round_trip) = Len(tokenized)
           /\ Len(tokenized) > 1 =>
                  /\ \A i \in 1..Len(tokenized) :
                         round_trip[i] = detokenize(vocab, <<tokenized[i]>>)[1]
                  /\ detokenize(vocab, Reversed(tokenized)) = Reversed(round_trip)

\* C17 witness: a batch of two different texts has been tokenized and
\* detokenized, to two different non-empty strings.
C17_Witness ==
    /\ op = "roundtrip"
    /\ Len(strings) = 2
    /\ strings[1] = HelloWorld
    /\ tokens[1] # tokens[2]
    /\ round_trip[1] # <<>>
    /\ round_trip[2] # <<>>
    /\ round_trip[1] # round_trip[2]

(***************************************************************************)
(* The order of cleanup and join in detokenize.                            *)
(***************************************************************************)
\* The reserved tokens cleanup removes.
BadTokens == {RESERVED_TOKENS[n] : n \in
                 {k \in 1..Len(RESERVED_TOKENS) : RESERVED_TOKENS[k] # TokUNK}}

\* The pieces of a row of valid ids, the reserved tokens other than the
\* unknown token removed token by token, the rest joined in their order.
TokenwiseCleanup(ids) ==
    LET pieces == Gather(vocab, ids)
        kept == SelectSeq(pieces, LAMBDA p : p \notin BadTokens)
    IN  StripSpaces(DropAllFrom(JoinWith(kept, <<" ">>), 1, <<" ">> \o Marker))

\* C18. Cleanup ordering: the string detokenize returns for a sequence of
\* valid ids is the join of its pieces after the reserved tokens other than
\* the unknown token have been removed token by token: the removal happens
\* after the ids are mapped to pieces and before the join, the remaining
\* tokens keep their order and no other token is removed.
C18_CleanupOrdering ==
    op \in {"detokenize", "roundtrip", "detokenize_framed"} =>
        \A i \in 1..Len(tokenized) :
            round_trip[i] = TokenwiseCleanup(tokenized[i])

(***************************************************************************)
(* Framing and cleanup.                                                    *)
(***************************************************************************)
\* A framed row without its first and last id.
Unframed(ids) == SubSeq(ids, 2, Len(ids) - 1)

\* C19. Framing is invisible after cleanup: for every sequence of valid ids
\* (the empty one included) detokenize returns for the framed sequence the
\* string it returns for the sequence itself.
C19_FramingInvisible ==
    op = "detokenize_framed" =>
        \A i \in 1..Len(tokenized) :
            /\ tokenized[i][1] = START
            /\ tokenized[i][Len(tokenized[i])] = END
            /\ round_trip[i] = detokenize(vocab, <<Unframed(tokenized[i])>>)[1]

(***************************************************************************)
(* The dataset cells: shuffle, take, skip, save, vocab_sample.             *)
(***************************************************************************)
MaxRecords == 4

\* config.N_SENTENCES, config.N_SAMPLES_TOKENIZER and the inverse of
\* config.VALIDATION_SHARE.
N_SENTENCES == MaxRecords
N_SAMPLES_TOKENIZER == 1
ValidationShareInverse == 2

\* Record i of df: records differ from one another.
Record(i) == [k \in 1..i |-> "a"]

Take(s, n) == SubSeq(s, 1, Min(n, Len(s)))
Skip(s, n) == SubSeq(s, n + 1, Len(s))

\* dataset.shuffle(config.BUFFER_SIZE) without a seed: an iteration yields
\* the records in any order.
Shuffled(s) ==
    {[i \in 1..Len(s) |-> s[f[i]]] :
        f \in {g \in [1..Len(s) -> 1..Len(s)] :
                  \A i, j \in 1..Len(s) : g[i] = g[j] => i = j}}

\* One iteration of dataset = dataset.shuffle(...).take(config.N_SENTENCES).
Iterations(df) == {Take(order, N_SENTENCES) : order \in Shuffled(df)}

\* val_size = int(n_samples * config.VALIDATION_SHARE)
val_size(df) == Min(N_SENTENCES, Len(df)) \div ValidationShareInverse

InitSplit ==
    /\ pc = "split"
    /\ \E n \in 2..MaxRecords : dataset = [i \in 1..n |-> Record(i)]
    /\ val_saved = <<>>
    /\ train_saved = <<>>
    /\ vocab_sample = <<>>
    /\ sample_eng = <<>>
    /\ eng_vocab = <<>>
    /\ vocab_file = <<>>
    /\ vocab = <<>>
    /\ self_reserved_tokens = <<>>
    /\ op = "none"
    /\ strings = <<>>
    /\ enc = <<>>
    /\ tokens = <<>>
    /\ tokenized = <<>>
    /\ words = <<>>
    /\ round_trip = <<>>
    /\ ret = <<>>
    /\ raised = "none"

\* val_dataset.save(config.VAL_DATA_PATH), val_dataset = dataset.take(val_size)
SaveVal ==
    /\ pc = "split"
    /\ \E it \in Iterations(dataset) : val_saved' = Take(it, val_size(dataset))
    /\ pc' = "save_train"
    /\ UNCHANGED <<dataset, train_saved, eng_vocab, vocab_file, vocab,
                   self_reserved_tokens, sampleVars, callVars>>

\* train_dataset.save(config.TRAIN_DATA_PATH), train_dataset = dataset.skip(val_size)
SaveTrain ==
    /\ pc = "save_train"
    /\ \E it \in Iterations(dataset) : train_saved' = Skip(it, val_size(dataset))
    /\ pc' = "sample"
    /\ UNCHANGED <<dataset, val_saved, eng_vocab, vocab_file, vocab,
                   self_reserved_tokens, sampleVars, callVars>>

\* vocab_sample = train_dataset.take(config.N_SAMPLES_TOKENIZER), iterated
\* when the vocabulary is learned.
TakeVocabSample ==
    /\ pc = "sample"
    /\ \E it \in Iterations(dataset) :
           vocab_sample' = Take(Skip(it, val_size(dataset)), N_SAMPLES_TOKENIZER)
    /\ pc' = "sampled"
    /\ UNCHANGED <<dataset, val_saved, train_saved, sample_eng, eng_vocab,
                   vocab_file, vocab, self_reserved_tokens, callVars>>

NextSplit ==
    \/ SaveVal
    \/ SaveTrain
    \/ TakeVocabSample

SpecSplit == InitSplit /\ [][NextSplit]_vars

\* The records of a sequence.
RecordsOf(s) == {s[i] : i \in 1..Len(s)}

\* C20. Train/validation split is a partition: the validation records
\* saved and the training records saved are disjoint and together hold
\* every selected record exactly once, and the sample taken to learn the
\* vocabulary holds no validation record.
C20_SplitPartition ==
    /\ pc \in {"sample", "sampled"} =>
           /\ RecordsOf(val_saved) \cap RecordsOf(train_saved) = {}
           /\ RecordsOf(val_saved) \cup RecordsOf(train_saved) = RecordsOf(dataset)
           /\ Len(val_saved) + Len(train_saved) = Len(dataset)
    /\ pc = "sampled" =>
           RecordsOf(vocab_sample) \cap RecordsOf(val_saved) = {}

\* The sizes of the two sets are those of a partition, and each set holds
\* no record twice.
C20_SplitSizes ==
    pc \in {"sample", "sampled"} =>
        /\ Len(val_saved) = val_size(dataset)
        /\ Len(train_saved) = Len(dataset) - val_size(dataset)
        /\ Cardinality(RecordsOf(val_saved)) = Len(val_saved)
        /\ Cardinality(RecordsOf(train_saved)) = Len(train_saved)

====
